---- MODULE Spec2Model ----
(***************************************************************************)
(* A model of exactonator (src/src/exactonator.cc, version 0.3.0, the last *)
(* of the versions in the file: lines 916-1641).                           *)
(*                                                                         *)
(*   - dimreal_t: a magnitude (mpreal) with a unit (phys::units quantity)  *)
(*   - expr_t and its subclasses: expression nodes held by shared_ptr,     *)
(*     with a memoized value (cache, dirty)                                *)
(*   - simplify: the in-place rewriter                                     *)
(*   - test_expr / recurse: the candidate generator                        *)
(*   - main: seeding, the selection loop, the sort and the printing        *)
(*                                                                         *)
(* Magnitudes are modelled as exact rationals n/d, with d = 0 for the      *)
(* special values of MPFR (+Inf = 1/0, -Inf = -1/0, NaN = 0/0).  The       *)
(* rounding of mpreal to its working precision is not modelled; a power    *)
(* with a non-integer exponent is approximated (see mpfr_pow).             *)
(***************************************************************************)
EXTENDS Integers, Sequences, FiniteSets, TLC

(***************************************************************************)
(* Bounds of the model.                                                    *)
(***************************************************************************)
MaxNum == 2          \* numerators of the magnitudes the arithmetic is tried on
MaxDimExp == 1       \* exponents of the length dimension it is tried on
MaxLit == 2          \* literal leaves 0..MaxLit of the trees simplify is tried on
MaxSimplify == 2     \* calls of simplify on one tree
MaxExprSize == 2     \* max_expr_size of the searches with drawn bounds
MaxInt == 1          \* max_int_constants of the searches with drawn bounds
MaxAll == 3          \* length of the drawn lists the selection is tried on
MaxNodes == 3        \* nodes of the heaps with drawn parent links

\* main prints at most this many lines
MaxPrinted == 30

(***************************************************************************)
(* mpreal: magnitudes                                                      *)
(***************************************************************************)
Abs(i) == IF i < 0 THEN -i ELSE i

Sign(i) == IF i < 0 THEN -1 ELSE IF i > 0 THEN 1 ELSE 0

RECURSIVE Gcd(_, _)
Gcd(a, b) == IF b = 0 THEN a ELSE Gcd(b, a % b)

\* The normal form of n/d: lowest terms, d >= 0; d = 0 keeps only the sign.
RNorm(n, d) ==
    IF d = 0 THEN [n |-> Sign(n), d |-> 0]
    ELSE LET g == Gcd(Abs(n), Abs(d))
             s == Sign(d)
         IN  [n |-> (s * n) \div g, d |-> (s * d) \div g]

RInt(i) == [n |-> i, d |-> 1]

RInf == [n |-> 1, d |-> 0]

RNaN == [n |-> 0, d |-> 0]

RIsNaN(a) == a.d = 0 /\ a.n = 0

RIsFinite(a) == a.d # 0

RNeg(a) == [n |-> -a.n, d |-> a.d]

\* The sum over the least common denominator
RAdd(a, b) ==
    IF a.d = 0 /\ b.d = 0
    THEN (IF a.n = b.n THEN a ELSE RNaN)
    ELSE IF a.d = 0 THEN a
    ELSE IF b.d = 0 THEN b
    ELSE LET g == Gcd(a.d, b.d)
         IN  RNorm(a.n * (b.d \div g) + b.n * (a.d \div g), (a.d \div g) * b.d)

RSub(a, b) == RAdd(a, RNeg(b))

\* The product, with the common factors taken out first
RMul(a, b) ==
    IF a.d = 0 \/ b.d = 0 THEN RNorm(a.n * b.n, 0)
    ELSE LET g1 == Gcd(Abs(a.n), b.d)
             g2 == Gcd(Abs(b.n), a.d)
         IN  RNorm((a.n \div g1) * (b.n \div g2), (a.d \div g2) * (b.d \div g1))

\* 1/a; 1/0 is +Inf (the sign of a zero is not modelled), 1/Inf is 0.
RRecip(a) ==
    IF a.d = 0 THEN (IF a.n = 0 THEN RNaN ELSE RInt(0))
    ELSE IF a.n = 0 THEN RInf
    ELSE RNorm(a.d * Sign(a.n), Abs(a.n))

RDiv(a, b) == RMul(a, RRecip(b))

\* mpreal comparisons: every comparison with NaN is false.
REq(a, b) == ~RIsNaN(a) /\ ~RIsNaN(b) /\ a = b

\* n1/d1 < n2/d2 for d1, d2 > 0, by the integer parts and then the
\* reciprocals of the fractional parts (no product is formed)
RECURSIVE FracLess(_, _, _, _)
FracLess(n1, d1, n2, d2) ==
    LET q1 == n1 \div d1
        q2 == n2 \div d2
        r1 == n1 % d1
        r2 == n2 % d2
    IN  IF q1 # q2 THEN q1 < q2
        ELSE IF r1 = 0 THEN r2 > 0
        ELSE IF r2 = 0 THEN FALSE
        ELSE FracLess(d2, r2, d1, r1)

RLt(a, b) ==
    /\ ~RIsNaN(a)
    /\ ~RIsNaN(b)
    /\ IF a.d = 0 /\ b.d = 0 THEN a.n < b.n
       ELSE IF a.d = 0 THEN a.n < 0
       ELSE IF b.d = 0 THEN b.n > 0
       ELSE FracLess(a.n, a.d, b.n, b.d)

RGt(a, b) == RLt(b, a)

RLe(a, b) == RLt(a, b) \/ REq(a, b)

RAbs(a) == [n |-> Abs(a.n), d |-> a.d]

\* mpfr::isint: an integer value; false for NaN and the infinities.
isint(a) == a.d = 1

\* floor of a finite magnitude (\div rounds towards minus infinity)
RFloor(a) == a.n \div a.d

\* mpreal::toLong of an integer-valued magnitude
toLong(a) == IF a.d = 0 THEN 0 ELSE a.n \div a.d

RECURSIVE RPowNat(_, _)
RPowNat(a, k) == IF k = 0 THEN RInt(1) ELSE RMul(a, RPowNat(a, k - 1))

\* a^k for an integer k (exact)
RPowInt(a, k) == IF k >= 0 THEN RPowNat(a, k) ELSE RRecip(RPowNat(a, -k))

\* The magnitude rounded to the nearest multiple of 1/16
RRound16(a) == RNorm((32 * a.n + a.d) \div (2 * a.d), 16)

\* mpfr::pow.  An integer exponent is computed exactly.  For a non-integer
\* exponent y and a base a >= 0 the result is in general irrational, and MPFR
\* rounds it to the working precision; the model keeps a value of low
\* precision: the product, in sixteenths, of a^f and of the chord
\* 1 + (y - f)(a - 1) between the neighbouring integer exponents, f = floor(y).
\* A negative base with a non-integer exponent, and a NaN operand, give NaN.
mpfr_pow(a, y) ==
    IF y.d = 1 THEN RPowInt(a, y.n)
    ELSE IF RIsNaN(a) \/ RIsNaN(y) THEN RNaN
    ELSE IF a = RInt(1) THEN RInt(1)
    ELSE IF a.n < 0 THEN RNaN
    ELSE IF y.d = 0
         THEN (IF (RLt(RInt(1), a)) = (y.n > 0) THEN RInf ELSE RInt(0))
    ELSE IF a.n = 0 THEN (IF y.n > 0 THEN RInt(0) ELSE RInf)
    ELSE IF a.d = 0 THEN (IF y.n > 0 THEN RInf ELSE RInt(0))
    ELSE LET f == RFloor(y)
             r == RSub(y, RInt(f))
         IN  RMul(RRound16(RPowInt(a, f)),
                  RRound16(RAdd(RInt(1), RMul(r, RSub(a, RInt(1))))))

(***************************************************************************)
(* phys::units::quantity: a unit is a scale factor with the exponents of   *)
(* the base dimensions (here two of them: length l and time t).  The       *)
(* library is not part of the repository; it is modelled as the data model *)
(* describes it ("physical-unit-with-scale").                              *)
(***************************************************************************)
\* quantity(): the dimensionless unit of scale 1
quantity == [s |-> RInt(1), l |-> 0, t |-> 0]

dimension(u) == <<u.l, u.t>>

dimensionless_d == <<0, 0>>

same_dimension(u, v) == dimension(u) = dimension(v)

unit_mul(u, v) == [s |-> RMul(u.s, v.s), l |-> u.l + v.l, t |-> u.t + v.t]

unit_div(u, v) == [s |-> RDiv(u.s, v.s), l |-> u.l - v.l, t |-> u.t - v.t]

nth_power(u, k) == [s |-> RPowInt(u.s, k), l |-> u.l * k, t |-> u.t * k]

unit_eq(u, v) == u.s = v.s /\ dimension(u) = dimension(v)

(***************************************************************************)
(* dimreal_t.  An operation returns a dimreal [value, unit], or, where the *)
(* code leaves through ERR_EXIT, the record [err |-> <the err_t value>].   *)
(***************************************************************************)
dimreal(v, u) == [value |-> v, unit |-> u]

Fatal(e) == [err |-> e]

IsFatal(x) == "err" \in DOMAIN x

\* operator+ with the unit of the right operand in the result
operator_plus_swapped_unit(x, other) ==
    IF ~same_dimension(x.unit, other.unit) THEN Fatal("dimension_add")
    ELSE dimreal(RAdd(x.value, other.value), other.unit)

operator_plus(x, other) ==
    IF ~same_dimension(x.unit, other.unit) THEN Fatal("dimension_add")
    ELSE dimreal(RAdd(x.value, other.value), x.unit)

operator_minus(x, other) ==
    IF ~same_dimension(x.unit, other.unit) THEN Fatal("dimension_add")
    ELSE dimreal(RSub(x.value, other.value), x.unit)

operator_neg(x) == dimreal(RNeg(x.value), x.unit)

operator_mul(x, other) ==
    dimreal(RMul(x.value, other.value), unit_mul(x.unit, other.unit))

operator_div(x, other) ==
    dimreal(RDiv(x.value, other.value), unit_div(x.unit, other.unit))

operator_eq(x, other) == REq(x.value, other.value) /\ unit_eq(x.unit, other.unit)

\* pow with the first two checks in the other order
pow_base_check_first(x, other) ==
    IF ~isint(other.value) /\ ~same_dimension(x.unit, quantity)
    THEN Fatal("dimension_nonint_exp_dim_base")
    ELSE IF dimension(other.unit) # dimensionless_d
    THEN Fatal("dimension_dim_exp")
    ELSE IF dimension(x.unit) = dimensionless_d
    THEN (IF RLt(x.value, RInt(0)) /\ ~isint(other.value)
          THEN Fatal("dimension_nonint_exp_neg_base")
          ELSE dimreal(mpfr_pow(x.value, other.value), x.unit))
    ELSE dimreal(mpfr_pow(x.value, other.value),
                 nth_power(x.unit, toLong(other.value)))

\* pow that leaves the unit of a base with a dimension as it is
pow_unit_kept(x, other) ==
    IF dimension(other.unit) # dimensionless_d
    THEN Fatal("dimension_dim_exp")
    ELSE IF ~isint(other.value) /\ ~same_dimension(x.unit, quantity)
    THEN Fatal("dimension_nonint_exp_dim_base")
    ELSE IF RLt(x.value, RInt(0)) /\ ~isint(other.value)
    THEN Fatal("dimension_nonint_exp_neg_base")
    ELSE dimreal(mpfr_pow(x.value, other.value), x.unit)

pow(x, other) ==
    IF dimension(other.unit) # dimensionless_d
    THEN Fatal("dimension_dim_exp")
    ELSE IF ~isint(other.value) /\ ~same_dimension(x.unit, quantity)
    THEN Fatal("dimension_nonint_exp_dim_base")
    ELSE IF dimension(x.unit) = dimensionless_d
    THEN (IF RLt(x.value, RInt(0)) /\ ~isint(other.value)
          THEN Fatal("dimension_nonint_exp_neg_base")
          ELSE dimreal(mpfr_pow(x.value, other.value), x.unit))
    ELSE dimreal(mpfr_pow(x.value, other.value),
                 nth_power(x.unit, toLong(other.value)))

cost(a, b) == RAbs(RSub(a, b))

(***************************************************************************)
(* The state.                                                              *)
(*   heap     the expr_t objects: heap[i] is the node with identity i      *)
(*   handles  the sptrexpr_t variables a caller holds (0: a null pointer)  *)
(*   exit     "run" while the process runs, else the err_t it exited with  *)
(***************************************************************************)
VARIABLES heap, handles, exit,
          hist,                  \* what the caller of load/simplify has seen
          ax, ay, aop, ares,     \* the operands, the operation and the result
                                 \* of one dimreal_t operation
          constants, target,     \* the globals the search reads
          max_expr_size, max_int_constants,
          all,                   \* the (error, expression) pairs recorded
          stack,                 \* the calls of recurse that have not returned
          pc, seed_i, sel_i,     \* where main is
          selected, printed      \* main's selected list, and the lines printed

exprVars == <<heap, handles, exit, hist>>

arithVars == <<ax, ay, aop, ares>>

genVars == <<constants, target, max_expr_size, max_int_constants, all, stack,
             pc, seed_i, sel_i, selected, printed>>

vars == <<heap, handles, exit, hist, ax, ay, aop, ares,
          constants, target, max_expr_size, max_int_constants, all, stack,
          pc, seed_i, sel_i, selected, printed>>

(***************************************************************************)
(* expr_t and its subclasses                                               *)
(***************************************************************************)
BinTypes == {"addexpr", "subexpr", "mulexpr", "divexpr", "powexpr"}

\* expr_t(): dirty = true, cache default-constructed, no parents
NewNode(ty, kids, val, nm) ==
    [type |-> ty, exprs |-> kids, parents |-> <<>>, dirty |-> TRUE,
     cache |-> dimreal(RInt(0), quantity), value |-> val, name |-> nm]

litexpr_t(val) == NewNode("litexpr", <<>>, val, "")

cnstexpr_t(val, nm) == NewNode("cnstexpr", <<>>, val, nm)

binexpr_t(ty, a, b) == NewNode(ty, <<a, b>>, dimreal(RInt(0), quantity), "")

\* std::make_shared: the new node gets the next identity
make_shared(h, node) == [h |-> Append(h, node), id |-> Len(h) + 1]

\* size() that counts the node and its children, not the nodes below them
size_one_level(h, id) == 1 + Len(h[id].exprs)

RECURSIVE size(_, _)
size(h, id) ==
    LET kids == h[id].exprs
    IN  1 + (IF Len(kids) = 0 THEN 0
             ELSE size(h, kids[1]) + size(h, kids[2]))

\* The operation of a binary node on the values of its children
ApplyOp(ty, x, y) ==
    CASE ty = "addexpr" -> operator_plus(x, y)
      [] ty = "subexpr" -> operator_minus(x, y)
      [] ty = "mulexpr" -> operator_mul(x, y)
      [] ty = "divexpr" -> operator_div(x, y)
      [] ty = "powexpr" -> pow(x, y)

\* load() and rload() return the heap they leave and the value (or the fatal
\* error the process exits with; a null child is dereferenced: "null_deref").
RECURSIVE load(_, _), rload(_, _)
\* load() that stores the value and leaves the dirty flag set
fill_cache_keep_dirty(r, id) ==
    IF IsFatal(r.v) THEN r
    ELSE [h |-> [r.h EXCEPT ![id].cache = r.v], v |-> r.v]

\* cache = rload(); dirty = false; for the r that rload() returned
fill_cache(r, id) ==
    IF IsFatal(r.v) THEN r
    ELSE [h |-> [r.h EXCEPT ![id].cache = r.v, ![id].dirty = FALSE], v |-> r.v]

load(h, id) ==
    IF id = 0 THEN [h |-> h, v |-> Fatal("null_deref")]
    ELSE IF h[id].dirty THEN fill_cache(rload(h, id), id)
    ELSE [h |-> h, v |-> h[id].cache]

rload(h, id) ==
    IF h[id].type \in {"litexpr", "cnstexpr"} THEN [h |-> h, v |-> h[id].value]
    ELSE LET x == load(h, h[id].exprs[1])
         IN  IF IsFatal(x.v) THEN x
             ELSE LET y == load(x.h, h[id].exprs[2])
                  IN  IF IsFatal(y.v) THEN y
                      ELSE [h |-> y.h, v |-> ApplyOp(h[id].type, x.v, y.v)]

\* The value of a node recomputed from its definition, whatever the caches hold
RECURSIVE Eval(_, _)
Eval(h, id) ==
    IF id = 0 THEN Fatal("null_deref")
    ELSE IF h[id].type \in {"litexpr", "cnstexpr"} THEN h[id].value
    ELSE LET x == Eval(h, h[id].exprs[1])
             y == Eval(h, h[id].exprs[2])
         IN  IF IsFatal(x) THEN x ELSE IF IsFatal(y) THEN y
             ELSE ApplyOp(h[id].type, x, y)

\* The tree below a node, without identities and caches
RECURSIVE Shape(_, _)
Shape(h, id) ==
    IF id = 0 THEN [type |-> "null"]
    ELSE IF h[id].type \in {"litexpr", "cnstexpr"}
    THEN [type |-> h[id].type, value |-> h[id].value, name |-> h[id].name]
    ELSE [type |-> h[id].type, l |-> Shape(h, h[id].exprs[1]),
          r |-> Shape(h, h[id].exprs[2])]

(***************************************************************************)
(* simplify(sptrexpr_t &a).  The argument is a reference to a shared_ptr:  *)
(* a slot <<0, k>> is the caller's variable handles[k], a slot <<n, i>> is *)
(* heap[n].exprs[i].  A store is the heap with the handles and the exit    *)
(* state; simplify maps a store to the store it leaves.                    *)
(***************************************************************************)
Store(h, hs, ex) == [heap |-> h, handles |-> hs, exit |-> ex]

Get(S, slot) ==
    IF slot[1] = 0 THEN S.handles[slot[2]] ELSE S.heap[slot[1]].exprs[slot[2]]

Set(S, slot, id) ==
    IF slot[1] = 0
    THEN [S EXCEPT !.handles[slot[2]] = id]
    ELSE [S EXCEPT !.heap[slot[1]].exprs[slot[2]] = id]

\* a = std::move(a->exprs[i]): the slot takes the child, and the member the
\* child was moved from is left null in the node the slot pointed to.
MoveChildUp(S, slot, i) ==
    LET old == Get(S, slot)
        kid == S.heap[old].exprs[i]
    IN  Set([S EXCEPT !.heap[old].exprs[i] = 0], slot, kid)

\* The store a load leaves: the caches it filled, and the exit it took
Loaded(S, r) ==
    [S |-> [S EXCEPT !.heap = r.h,
                     !.exit = IF IsFatal(r.v) THEN r.v.err ELSE S.exit],
     v |-> r.v]

\* a->exprs[i]->load()
LoadChild(S, slot, i) == Loaded(S, load(S.heap, S.heap[Get(S, slot)].exprs[i]))

Zero == dimreal(RInt(0), quantity)

One == dimreal(RInt(1), quantity)

\* if (<loaded child> == e) { a = std::move(a->exprs[keep]); goto redo; }
\* for the loaded child c: the store left, whether the rule rewrote (hit), and
\* whether the rules of this node are over (stop).
DropIf(c, slot, e, keep) ==
    IF IsFatal(c.v) THEN [S |-> c.S, hit |-> FALSE, stop |-> TRUE]
    ELSE IF operator_eq(c.v, e)
    THEN [S |-> MoveChildUp(c.S, slot, keep), hit |-> TRUE, stop |-> TRUE]
    ELSE [S |-> c.S, hit |-> FALSE, stop |-> FALSE]

\* The second test of a node, reached when the first one did not rewrite
OrDropIf(w, slot, i, e, keep) ==
    IF w.stop THEN w ELSE DropIf(LoadChild(w.S, slot, i), slot, e, keep)

\* The inversion of 1 / (expr / expr): the children of the inner division are
\* swapped, and the slot takes the inner division.
InvertQuotient(S, slot) ==
    LET inner == S.heap[Get(S, slot)].exprs[2]
    IN  MoveChildUp([S EXCEPT !.heap[inner].exprs =
                         <<S.heap[inner].exprs[2], S.heap[inner].exprs[1]>>],
                    slot, 2)

\* if (a->exprs[0]->load() == 1) { if (a->exprs[1]->type == divexpr) {...} }
InvertIf(c, slot) ==
    IF IsFatal(c.v) THEN [S |-> c.S, hit |-> FALSE, stop |-> TRUE]
    ELSE IF /\ operator_eq(c.v, One)
            /\ c.S.heap[c.S.heap[Get(c.S, slot)].exprs[2]].type = "divexpr"
    THEN [S |-> InvertQuotient(c.S, slot), hit |-> TRUE, stop |-> TRUE]
    ELSE [S |-> c.S, hit |-> FALSE, stop |-> FALSE]

OrInvertIf(w, slot) ==
    IF w.stop THEN w ELSE InvertIf(LoadChild(w.S, slot, 1), slot)

\* The rules at the node in the slot, in the order of the if-chain.  The loads
\* the tests make are kept whether or not a rule matches.
Rewrite(S, slot, ty) ==
    CASE ty = "addexpr" ->
           OrDropIf(DropIf(LoadChild(S, slot, 1), slot, Zero, 2), slot, 2, Zero, 1)
      [] ty = "subexpr" ->
           DropIf(LoadChild(S, slot, 2), slot, Zero, 1)
      [] ty = "mulexpr" ->
           OrDropIf(DropIf(LoadChild(S, slot, 1), slot, One, 2), slot, 2, One, 1)
      [] ty = "divexpr" ->
           OrInvertIf(DropIf(LoadChild(S, slot, 2), slot, One, 1), slot)
      [] OTHER -> [S |-> S, hit |-> FALSE, stop |-> FALSE]

RECURSIVE simplify(_, _)
\* redo: simplify(a), or the loop for (sptrexpr_t &expr : a->exprs) simplify(expr)
redo_or_descend(w, slot) ==
    IF w.hit THEN simplify(w.S, slot)
    ELSE simplify(simplify(w.S, <<Get(w.S, slot), 1>>), <<Get(w.S, slot), 2>>)

simplify(S, slot) ==
    IF S.exit # "run" THEN S
    ELSE IF Get(S, slot) = 0 THEN [S EXCEPT !.exit = "null_deref"]
    ELSE IF size(S.heap, Get(S, slot)) <= 1 THEN S
    ELSE redo_or_descend(Rewrite(S, slot, S.heap[Get(S, slot)].type), slot)

(***************************************************************************)
(* Specification SpecArith: one dimreal_t operation on operands drawn from *)
(* a bounded set.                                                          *)
(***************************************************************************)
ArithMagnitudes == {RNorm(n, d) : n \in -MaxNum..MaxNum, d \in {1, 2}}

ArithUnits ==
    {[s |-> RInt(k), l |-> e, t |-> 0] : k \in {1, 1000}, e \in -MaxDimExp..MaxDimExp}

ArithInputs == {dimreal(m, u) : m \in ArithMagnitudes, u \in ArithUnits}

ArithIdle == ax = Zero /\ ay = Zero /\ aop = "idle" /\ ares = Zero

ExprIdle == heap = <<>> /\ handles = <<>> /\ exit = "run" /\ hist = <<>>

GenIdle ==
    /\ constants = <<>>
    /\ target = Zero
    /\ max_expr_size = 1
    /\ max_int_constants = 0
    /\ all = <<>>
    /\ stack = <<>>
    /\ pc = "idle"
    /\ seed_i = 0
    /\ sel_i = 0
    /\ selected = <<>>
    /\ printed = <<>>

InitArith ==
    /\ ax \in ArithInputs
    /\ ay \in ArithInputs
    /\ aop = "none"
    /\ ares = Zero
    /\ ExprIdle
    /\ GenIdle

Apply(op, r) ==
    /\ aop = "none"
    /\ aop' = op
    /\ ares' = r
    /\ UNCHANGED <<ax, ay, exprVars, genVars>>

ArithAdd == Apply("+", operator_plus(ax, ay))

ArithSub == Apply("-", operator_minus(ax, ay))

ArithNeg == Apply("neg", operator_neg(ax))

ArithMul == Apply("*", operator_mul(ax, ay))

ArithDiv == Apply("/", operator_div(ax, ay))

ArithPow == Apply("pow", pow(ax, ay))

ArithEq == Apply("==", [eq |-> operator_eq(ax, ay)])

\* The expression a + b == b + a: both sums, then operator==
SumsCompared(s1, s2) ==
    IF IsFatal(s1) THEN s1 ELSE IF IsFatal(s2) THEN s2
    ELSE [eq |-> operator_eq(s1, s2)]

ArithCommute ==
    Apply("a+b==b+a", SumsCompared(operator_plus(ax, ay), operator_plus(ay, ax)))

NextArith ==
    \/ ArithAdd
    \/ ArithSub
    \/ ArithNeg
    \/ ArithMul
    \/ ArithDiv
    \/ ArithPow
    \/ ArithEq
    \/ ArithCommute

SpecArith == InitArith /\ [][NextArith]_vars

(***************************************************************************)
(* Claims about dimreal_t (checked under SpecArith)                        *)
(***************************************************************************)
\* C9: operator+ and operator- end in the fatal error dimension_add exactly
\* when the dimensions of the operands differ; otherwise the magnitude of the
\* result is the sum (difference) of the magnitudes and its unit is the unit
\* of the left operand.
C9_AddSubDimension ==
    aop \in {"+", "-"} =>
        IF dimension(ax.unit) # dimension(ay.unit)
        THEN ares = Fatal("dimension_add")
        ELSE /\ ~IsFatal(ares)
             /\ ares.value = (IF aop = "+" THEN RAdd(ax.value, ay.value)
                              ELSE RSub(ax.value, ay.value))
             /\ ares.unit = ax.unit

\* An addition of operands of one dimension whose units differ in scale
C9_Witness ==
    /\ aop = "+"
    /\ dimension(ax.unit) = dimension(ay.unit)
    /\ ax.unit # ay.unit
    /\ ax.value # ay.value
    /\ ~IsFatal(ares)

\* C10: pow ends in the fatal error dimension_dim_exp for every exponent of a
\* dimension other than dimensionless, whatever the dimension and the sign of
\* the base and whether or not the exponent is an integer: the test comes
\* before the tests of the other two errors of pow.
C10_PowDimensionedExponent ==
    (aop = "pow" /\ dimension(ay.unit) # dimensionless_d)
        => ares = Fatal("dimension_dim_exp")

\* A pow whose operands also meet the condition of the second error of pow: a
\* non-integer exponent and a base with a dimension
C10_Witness ==
    /\ aop = "pow"
    /\ dimension(ay.unit) # dimensionless_d
    /\ ~isint(ay.value)
    /\ dimension(ax.unit) # dimensionless_d
    /\ RLt(ax.value, RInt(0))
    /\ IsFatal(ares)

\* C11: for an exponent without dimension, pow ends in the fatal error
\* dimension_nonint_exp_dim_base exactly when the exponent is not an integer
\* and the base has a dimension, in dimension_nonint_exp_neg_base exactly when
\* the base has no dimension, is negative and the exponent is not an integer,
\* and otherwise returns a value whose dimension is the dimension of the base
\* times the integer exponent, with the unit of the base itself when the base
\* has no dimension.
C11_PowLegality ==
    (aop = "pow" /\ dimension(ay.unit) = dimensionless_d) =>
        LET nonint == ~isint(ay.value)
            dimless == dimension(ax.unit) = dimensionless_d
            negative == RLt(ax.value, RInt(0))
            k == toLong(ay.value)
        IN  /\ ares = Fatal("dimension_nonint_exp_dim_base")
                   <=> (nonint /\ ~dimless)
            /\ ares = Fatal("dimension_nonint_exp_neg_base")
                   <=> (dimless /\ negative /\ nonint)
            /\ ~(nonint /\ (~dimless \/ negative)) =>
                   /\ ~IsFatal(ares)
                   /\ dimension(ares.unit) = <<ax.unit.l * k, ax.unit.t * k>>
                   /\ dimless => ares.unit = ax.unit

\* A pow of a base with a dimension to an integer exponent other than 1 that
\* has a scale factor of its own
C11_Witness ==
    /\ aop = "pow"
    /\ dimension(ay.unit) = dimensionless_d
    /\ ay.unit # quantity
    /\ dimension(ax.unit) # dimensionless_d
    /\ ay.value = RInt(2)
    /\ RLt(ax.value, RInt(0))
    /\ ~IsFatal(ares)

\* C12: addition is commutative under the equality of dimreal_t: for operands
\* a and b whose units have one dimension, units that differ only in their
\* scale factor included, a + b == b + a holds, where == compares the
\* magnitudes and the units.
C12_AddCommutes ==
    (aop = "a+b==b+a" /\ same_dimension(ax.unit, ay.unit))
        => ares = [eq |-> TRUE]

(***************************************************************************)
(* Specification SpecSimp: a caller builds one expression tree, and calls  *)
(* load() and simplify() on its handle.                                    *)
(***************************************************************************)
Meter == [s |-> RInt(1), l |-> 1, t |-> 0]

Lit(i) == [type |-> "litexpr", value |-> dimreal(RInt(i), quantity), name |-> ""]

SimpLeaves ==
    {Lit(i) : i \in 0..MaxLit}
    \cup {[type |-> "cnstexpr", value |-> dimreal(RInt(3), quantity), name |-> "c"],
          [type |-> "litexpr", value |-> dimreal(RInt(1), Meter), name |-> ""]}

Bin(ty, l, r) == [type |-> ty, l |-> l, r |-> r]

\* One generation step around a seed: an operator with a leaf on either side
Wraps(seeds, tys, leaves) ==
    {Bin(ty, sd, x) : ty \in tys, sd \in seeds, x \in leaves}
    \cup {Bin(ty, x, sd) : ty \in tys, sd \in seeds, x \in leaves}

RuleTypes == {"addexpr", "subexpr", "mulexpr", "divexpr"}

SimpTrees1 == Wraps(SimpLeaves, BinTypes, SimpLeaves)

SimpTrees2 == Wraps(SimpTrees1, RuleTypes, {Lit(0), Lit(1)})

SimpTrees3 == Wraps(Wraps(Wraps({Lit(2)}, {"divexpr", "addexpr"}, {Lit(0), Lit(1), Lit(3)}),
                          RuleTypes, {Lit(0), Lit(1)}),
                    RuleTypes, {Lit(0), Lit(1)})

RECURSIVE TreeValue(_)
TreeValue(t) ==
    IF t.type \in {"litexpr", "cnstexpr"} THEN t.value
    ELSE LET x == TreeValue(t.l)
             y == TreeValue(t.r)
         IN  IF IsFatal(x) THEN x ELSE IF IsFatal(y) THEN y
             ELSE ApplyOp(t.type, x, y)

\* The trees whose evaluation does not exit and divides by no zero: every
\* subtree has a finite value
RECURSIVE WellFormed(_)
WellFormed(t) ==
    /\ ~IsFatal(TreeValue(t))
    /\ RIsFinite(TreeValue(t).value)
    /\ t.type \in BinTypes => (WellFormed(t.l) /\ WellFormed(t.r))

SimpTrees == {t \in SimpLeaves \cup SimpTrees1 \cup SimpTrees2 \cup SimpTrees3 :
                WellFormed(t)}

RECURSIVE Build(_, _)
Build(h, t) ==
    IF t.type = "litexpr" THEN make_shared(h, litexpr_t(t.value))
    ELSE IF t.type = "cnstexpr" THEN make_shared(h, cnstexpr_t(t.value, t.name))
    ELSE LET a == Build(h, t.l)
             b == Build(a.h, t.r)
         IN  make_shared(b.h, binexpr_t(t.type, a.id, b.id))

InitSimp ==
    /\ \E t \in SimpTrees :
          LET b == Build(<<>>, t)
          IN  heap = b.h /\ handles = <<b.id>>
    /\ exit = "run"
    /\ hist = <<>>
    /\ ArithIdle
    /\ GenIdle

NSimplify == Cardinality({i \in DOMAIN hist : hist[i].op = "simplify"})

\* The loads at the end of the history (1 or 2 are told apart)
LoadsInARow ==
    IF hist = <<>> \/ hist[Len(hist)].op # "load" THEN 0
    ELSE IF Len(hist) = 1 \/ hist[Len(hist) - 1].op # "load" THEN 1
    ELSE 2

\* dimreal_t v = a->load();
LoadRoot ==
    /\ exit = "run"
    /\ LoadsInARow < 2
    /\ \E r \in {load(heap, handles[1])} :
           /\ heap' = r.h
           /\ exit' = IF IsFatal(r.v) THEN r.v.err ELSE exit
           /\ hist' = Append(hist, [op |-> "load", v |-> r.v])
    /\ UNCHANGED <<handles, arithVars, genVars>>

\* simplify(a);
SimplifyRoot ==
    /\ exit = "run"
    /\ NSimplify < MaxSimplify
    /\ \E S \in {simplify(Store(heap, handles, exit), <<0, 1>>)} :
           /\ heap' = S.heap
           /\ handles' = S.handles
           /\ exit' = S.exit
           /\ hist' = Append(hist, [op |-> "simplify",
                                    shape |-> Shape(S.heap, S.handles[1])])
    /\ UNCHANGED <<arithVars, genVars>>

NextSimp ==
    \/ LoadRoot
    \/ SimplifyRoot

SpecSimp == InitSimp /\ [][NextSimp]_vars

(***************************************************************************)
(* Claims about simplify (checked under SpecSimp)                          *)
(***************************************************************************)
\* C1 (as claimed): a load() of the tree that simplify left returns the value
\* that load() returned before the simplification.
C1_LoadAfterSimplifyEqualsLoadBefore ==
    \A i, j \in DOMAIN hist :
        (i < j /\ hist[i].op = "load" /\ hist[j].op = "load")
            => hist[j].v = hist[i].v

\* C2 (as claimed): a second simplify leaves the tree of the first unchanged.
C2_SecondSimplifyChangesNothing ==
    \A i, j \in DOMAIN hist :
        (i < j /\ hist[i].op = "simplify" /\ hist[j].op = "simplify")
            => hist[j].shape = hist[i].shape

(***************************************************************************)
(* Claims about load (checked under SpecSimp)                              *)
(***************************************************************************)
\* The nodes of the tree below a node, the node included
RECURSIVE Descendants(_, _)
Descendants(h, id) ==
    IF id = 0 THEN {}
    ELSE {id} \cup UNION {Descendants(h, h[id].exprs[i]) : i \in DOMAIN h[id].exprs}

\* A step that is a load() of the root which returned
LoadReturned ==
    /\ Len(hist') = Len(hist) + 1
    /\ hist'[Len(hist')].op = "load"
    /\ exit' = "run"

\* C13: a node is built dirty.  A load() of a dirty node returns the value
\* computed from its own value (a leaf) or from the values its children hold
\* after their loads (an operator), stores it in cache and clears dirty; a
\* load() of a clean node returns its cache and changes no node; after a load()
\* the node and all its descendants are clean; and a load() that follows a
\* load() returns the same value.
C13_MemoizedLoad ==
    /\ [](hist = <<>> => \A n \in DOMAIN heap : heap[n].dirty)
    /\ [][LoadReturned =>
            LET a == handles[1]
                v == hist'[Len(hist')].v
                kids == heap[a].exprs
            IN  /\ heap[a].dirty =>
                       /\ v = IF kids = <<>> THEN heap[a].value
                              ELSE ApplyOp(heap[a].type, heap'[kids[1]].cache,
                                           heap'[kids[2]].cache)
                       /\ heap'[a].cache = v
                /\ ~heap[a].dirty => (v = heap[a].cache /\ heap' = heap)
                /\ \A n \in Descendants(heap', a) : ~heap'[n].dirty
                /\ LoadsInARow = 1 => v = hist[Len(hist)].v]_vars

\* A second load() in a row of a tree of three operators, after the load()
\* that found every node dirty
C13_Witness ==
    /\ LoadsInARow = 2
    /\ Len(hist) = 2
    /\ Cardinality(Descendants(heap, handles[1])) = 7
    /\ \A n \in DOMAIN heap : ~heap[n].dirty

\* C14 (as claimed): an operation that changes the children of a node sets
\* its dirty flag, so that in every reachable state the cache of a clean node
\* of the tree is the value recomputed from the children it has now.
C14_CleanCacheIsCurrent ==
    exit = "run" =>
        \A n \in Descendants(heap, handles[1]) :
            ~heap[n].dirty => heap[n].cache = Eval(heap, n)

(***************************************************************************)
(* Claims about the size of the tree simplify leaves (checked under        *)
(* SpecSimp)                                                               *)
(***************************************************************************)
\* The slots that hold the nodes of the tree: the handle and the child slots
TreeSlots ==
    {<<0, 1>>} \cup {<<n, i>> : n \in {m \in Descendants(heap, handles[1]) :
                                          heap[m].exprs # <<>>},
                               i \in {1, 2}}

\* C25: a rewrite of simplify leaves in the slot a tree of a size() strictly
\* below the size() of the tree it rewrote; simplify returns on every
\* well-formed tree; the tree it leaves has a size() less than or equal to the
\* size() of the tree it was called on; and a leaf is left as it is.
C25_SimplifyShrinks ==
    exit = "run" =>
        /\ \A slot \in TreeSlots :
               \E w \in {Rewrite(Store(heap, handles, exit), slot,
                                 heap[Get(Store(heap, handles, exit), slot)].type)} :
                   w.hit => size(w.S.heap, Get(w.S, slot))
                                < size(heap, Get(Store(heap, handles, exit), slot))
        /\ \E S \in {simplify(Store(heap, handles, exit), <<0, 1>>)} :
               /\ S.exit = "run"
               /\ size(S.heap, S.handles[1]) <= size(heap, handles[1])
               /\ size(heap, handles[1]) = 1 => (S.heap = heap /\ S.handles = handles)

\* A simplification that went from seven nodes to three by two rewrites
C25_Witness ==
    /\ exit = "run"
    /\ hist # <<>>
    /\ hist[Len(hist)].op = "simplify"
    /\ Len(heap) = 7
    /\ size(heap, handles[1]) = 3

(***************************************************************************)
(* Specification SpecDirty: a caller fills the parents vectors of some     *)
(* loaded nodes (the member is public; the program itself never fills it)  *)
(* and calls signal_dirty() on one of them.  The recursion of signal_dirty *)
(* is a stack of frames [node, i]: the node of the call and the position   *)
(* of its loop over parents.  A call deeper than the number of nodes has a *)
(* node twice on the stack, so the recursion repeats without end; the      *)
(* process then ends when it has used up its stack: exit "stack_overflow". *)
(***************************************************************************)
RECURSIVE Ascending(_)
Ascending(ns) ==
    IF ns = {} THEN <<>>
    ELSE LET hi == CHOOSE n \in ns : \A k \in ns : k <= n
         IN  Append(Ascending(ns \ {hi}), hi)

\* The heaps of MaxNodes clean leaves, for every choice of parents vectors
ParentHeaps ==
    {[n \in 1..MaxNodes |->
         [litexpr_t(dimreal(RInt(n), quantity))
             EXCEPT !.parents = Ascending(ps[n]), !.dirty = FALSE,
                    !.cache = dimreal(RInt(n), quantity)]] :
       ps \in [1..MaxNodes -> SUBSET (1..MaxNodes)]}

InitDirty ==
    /\ heap \in ParentHeaps
    /\ handles \in {<<n>> : n \in 1..MaxNodes}
    /\ exit = "run"
    /\ hist = <<>>
    /\ ArithIdle
    /\ GenIdle

\* dirty = true; on entry of signal_dirty() on node n
enter_signal_dirty(h, n) == [h EXCEPT ![n].dirty = TRUE]

\* a->signal_dirty(); by the caller, at most twice
SignalDirtyCall ==
    /\ exit = "run"
    /\ stack = <<>>
    /\ Len(hist) < 2
    /\ heap' = enter_signal_dirty(heap, handles[1])
    /\ stack' = <<[node |-> handles[1], i |-> 1]>>
    /\ UNCHANGED <<handles, exit, hist, arithVars, constants, target,
                   max_expr_size, max_int_constants, all, pc, seed_i, sel_i,
                   selected, printed>>

\* parent->signal_dirty(); for the next parent of the loop
SignalDirtyParent ==
    /\ exit = "run"
    /\ stack # <<>>
    /\ LET f == stack[Len(stack)]
           ps == heap[f.node].parents
       IN  /\ f.i <= Len(ps)
           /\ IF Len(stack) > MaxNodes
              THEN /\ exit' = "stack_overflow"
                   /\ UNCHANGED <<heap, stack>>
              ELSE /\ heap' = enter_signal_dirty(heap, ps[f.i])
                   /\ stack' = Append([stack EXCEPT ![Len(stack)].i = f.i + 1],
                                      [node |-> ps[f.i], i |-> 1])
                   /\ exit' = exit
    /\ UNCHANGED <<handles, hist, arithVars, constants, target,
                   max_expr_size, max_int_constants, all, pc, seed_i, sel_i,
                   selected, printed>>

\* The end of the loop over parents: the call returns.  The caller notes the
\* dirty nodes when its own call has returned.
SignalDirtyReturn ==
    /\ exit = "run"
    /\ stack # <<>>
    /\ LET f == stack[Len(stack)]
       IN  f.i > Len(heap[f.node].parents)
    /\ stack' = SubSeq(stack, 1, Len(stack) - 1)
    /\ hist' = IF Len(stack) = 1
               THEN Append(hist, [op |-> "signal_dirty",
                                  dirty |-> {n \in DOMAIN heap : heap[n].dirty}])
               ELSE hist
    /\ UNCHANGED <<heap, handles, exit, arithVars, constants, target,
                   max_expr_size, max_int_constants, all, pc, seed_i, sel_i,
                   selected, printed>>

NextDirty ==
    \/ SignalDirtyCall
    \/ SignalDirtyParent
    \/ SignalDirtyReturn

SpecDirty == InitDirty /\ [][NextDirty]_vars

(***************************************************************************)
(* Claims about signal_dirty (checked under SpecDirty)                     *)
(***************************************************************************)
\* The nodes reached from the nodes ns through parent links
RECURSIVE ParentClosure(_, _)
ParentClosure(h, ns) ==
    LET more == ns \cup UNION {{h[n].parents[i] : i \in DOMAIN h[n].parents} : n \in ns}
    IN  IF more = ns THEN ns ELSE ParentClosure(h, more)

\* C15 (as claimed): signal_dirty returns for every configuration of parent
\* links, cycles included, and when it has returned exactly the node and the
\* nodes reachable from it through parent links are dirty; a second call
\* changes nothing.
C15_SignalDirtyTerminates ==
    /\ exit # "stack_overflow"
    /\ \A k \in DOMAIN hist :
           hist[k].dirty = ParentClosure(heap, {handles[1]})

(***************************************************************************)
(* Specification SpecEq: a caller builds two expression trees and compares *)
(* them with expr_t::operator==.  other.exprs[i] is read without a test of *)
(* other.exprs.size(): where the other node has no such child the read is  *)
(* undefined, and the comparison may give either answer or end the process *)
(* ("segv").  The result is the set of the outcomes that are possible.     *)
(***************************************************************************)
RECURSIVE expr_operator_eq(_, _, _), vectors_eq(_, _, _, _)
\* for (i < xs.size()) res = res && (*xs[i] == *ys[i]); from position i, res true
vectors_eq(h, xs, ys, i) ==
    IF i > Len(xs) THEN {"true"}
    ELSE IF i > Len(ys) THEN {"true", "false", "segv"}
    ELSE UNION {IF r = "true" THEN vectors_eq(h, xs, ys, i + 1) ELSE {r} :
                  r \in expr_operator_eq(h, xs[i], ys[i])}

expr_operator_eq(h, a, b) ==
    UNION {IF r = "true" THEN vectors_eq(h, h[a].parents, h[b].parents, 1) ELSE {r} :
             r \in vectors_eq(h, h[a].exprs, h[b].exprs, 1)}

EqLeaves ==
    {Lit(i) : i \in 1..MaxLit}
    \cup {[type |-> "cnstexpr", value |-> dimreal(RInt(1), quantity), name |-> "c"]}

EqTrees1 == Wraps(EqLeaves, {"addexpr", "mulexpr"}, EqLeaves)

EqTrees == EqLeaves \cup EqTrees1 \cup Wraps(EqTrees1, {"addexpr"}, {Lit(1)})

InitEq ==
    /\ \E t1, t2 \in EqTrees :
          \E a \in {Build(<<>>, t1)} :
             \E b \in {Build(a.h, t2)} :
                heap = b.h /\ handles = <<a.id, b.id>>
    /\ exit = "run"
    /\ hist = <<>>
    /\ ArithIdle
    /\ GenIdle

\* bool res = (*e1 == *e2); with what the caller sees: the answer, and
\* whether it is the only outcome the comparison can have
CompareRoots ==
    /\ exit = "run"
    /\ hist = <<>>
    /\ \E rs \in {expr_operator_eq(heap, handles[1], handles[2])} :
          \E r \in rs :
             /\ hist' = <<[op |-> "==", res |-> r, defined |-> (rs = {r})]>>
             /\ exit' = IF r = "segv" THEN "segv" ELSE exit
    /\ UNCHANGED <<heap, handles, arithVars, genVars>>

NextEq == CompareRoots

SpecEq == InitEq /\ [][NextEq]_vars

(***************************************************************************)
(* Claims about expr_t::operator== (checked under SpecEq)                  *)
(***************************************************************************)
\* C16 (as claimed): e1 == e2 holds exactly when the two trees are the same
\* in structure (the kind of every node, the number of children, the values
\* and names of the leaves), and the comparison reads no child that the other
\* node does not have.
C16_EqualityIsStructural ==
    \A k \in DOMAIN hist :
        /\ hist[k].defined
        /\ hist[k].res = "true"
               <=> Shape(heap, handles[1]) = Shape(heap, handles[2])

(***************************************************************************)
(* test_expr and recurse                                                   *)
(***************************************************************************)
\* The test of the bound two sizes late
cursize_exceeds_late(cursize, bound) ==
    IF bound < 0 THEN FALSE ELSE cursize > bound + 2

\* cursize > max_expr_size, of a std::uint32_t and a std::int32_t: the bound is
\* converted to unsigned, so a negative bound is above every cursize < 2^31.
cursize_exceeds(cursize, bound) == IF bound < 0 THEN FALSE ELSE cursize > bound

\* A candidate of recurse(b): the operator, the new leaf, and whether b is the
\* first child.
Cand(ty, leaf, bfirst) == [type |-> ty, leaf |-> leaf, bfirst |-> bfirst]

Cnst(c) == cnstexpr_t(c.value, c.name)

\* The candidates of one constant, in the order of the loop body
ConstantCandidates(c, bv) ==
    LET cv == c.value
        If(cond, x) == IF cond THEN <<x>> ELSE <<>>
    IN  (IF same_dimension(bv.unit, quantity)
         THEN (IF same_dimension(cv.unit, quantity)
               THEN If(RGt(cv.value, RInt(0))
                         \/ (RLt(cv.value, RInt(0)) /\ isint(bv.value)),
                       Cand("powexpr", Cnst(c), FALSE))
                    \o If(RGt(bv.value, RInt(0))
                            \/ (RLt(bv.value, RInt(0)) /\ isint(cv.value)),
                          Cand("powexpr", Cnst(c), TRUE))
                    \o If(isint(cv.value), Cand("powexpr", Cnst(c), TRUE))
               ELSE <<>>)
              \o If(isint(bv.value), Cand("powexpr", Cnst(c), FALSE))
         ELSE <<>>)
        \o <<Cand("mulexpr", Cnst(c), TRUE)>>
        \o If(~REq(cv.value, RInt(0)), Cand("divexpr", Cnst(c), TRUE))
        \o If(~REq(bv.value, RInt(0)), Cand("divexpr", Cnst(c), FALSE))
        \o (IF same_dimension(cv.unit, bv.unit)
            THEN <<Cand("addexpr", Cnst(c), TRUE),
                   Cand("subexpr", Cnst(c), TRUE),
                   Cand("subexpr", Cnst(c), FALSE)>>
            ELSE <<>>)

\* The body of that loop with the literal of the product in the unit b / target
MulPowLiteralCandidates_inverse_unit(i, bv, tgt) ==
    LET If(cond, x) == IF cond THEN <<x>> ELSE <<>>
        bottom == dimreal(RInt(i), unit_div(bv.unit, tgt.unit))
    IN  <<Cand("mulexpr", litexpr_t(bottom), TRUE)>>
        \o If(~REq(bottom.value, RInt(0)), Cand("divexpr", litexpr_t(bottom), TRUE))
        \o (IF same_dimension(bv.unit, quantity)
            THEN If(isint(bv.value),
                    Cand("powexpr", litexpr_t(dimreal(RInt(i), quantity)), FALSE))
                 \o <<Cand("powexpr", litexpr_t(dimreal(RInt(i), quantity)), TRUE)>>
            ELSE <<>>)

\* The body of the loop for (mpreal i = 2; i <= max_int_constants; i++)
MulPowLiteralCandidates(i, bv, tgt) ==
    LET If(cond, x) == IF cond THEN <<x>> ELSE <<>>
        bottom == dimreal(RInt(i), unit_div(bv.unit, tgt.unit))
    IN  <<Cand("mulexpr", litexpr_t(dimreal(RInt(i), unit_div(tgt.unit, bv.unit))),
               TRUE)>>
        \o If(~REq(bottom.value, RInt(0)), Cand("divexpr", litexpr_t(bottom), TRUE))
        \o (IF same_dimension(bv.unit, quantity)
            THEN If(isint(bv.value),
                    Cand("powexpr", litexpr_t(dimreal(RInt(i), quantity)), FALSE))
                 \o <<Cand("powexpr", litexpr_t(dimreal(RInt(i), quantity)), TRUE)>>
            ELSE <<>>)

\* The body of that loop with literals in the unit of the target
AddLiteralCandidates_target_unit(i, bv, tgt) ==
    LET If(cond, x) == IF cond THEN <<x>> ELSE <<>>
        same == litexpr_t(dimreal(RInt(i), tgt.unit))
    IN  If(~REq(bv.value, RInt(0)),
           Cand("divexpr",
                litexpr_t(dimreal(RInt(i), unit_mul(bv.unit, tgt.unit))), FALSE))
        \o <<Cand("addexpr", same, TRUE),
             Cand("subexpr", same, TRUE),
             Cand("subexpr", same, FALSE)>>

\* The body of the loop for (mpreal i = 1; i <= max_int_constants; i++)
AddLiteralCandidates(i, bv, tgt) ==
    LET If(cond, x) == IF cond THEN <<x>> ELSE <<>>
        same == litexpr_t(dimreal(RInt(i), bv.unit))
    IN  If(~REq(bv.value, RInt(0)),
           Cand("divexpr",
                litexpr_t(dimreal(RInt(i), unit_mul(bv.unit, tgt.unit))), FALSE))
        \o <<Cand("addexpr", same, TRUE),
             Cand("subexpr", same, TRUE),
             Cand("subexpr", same, FALSE)>>

\* Every candidate recurse(b, cursize) hands to test_expr, in order, for the
\* value bv that b->load() returns.
Candidates(bv, cs, tgt, maxint) ==
    LET byConst[k \in 0..Len(cs)] ==
            IF k = 0 THEN <<>>
            ELSE byConst[k - 1] \o ConstantCandidates(cs[k], bv)
        top == IF maxint < 0 THEN 0 ELSE maxint
        mulpow[i \in 1..(top + 1)] ==
            IF i = 1 THEN <<>>
            ELSE mulpow[i - 1] \o MulPowLiteralCandidates(i, bv, tgt)
        addsub[i \in 0..top] ==
            IF i = 0 THEN <<>>
            ELSE addsub[i - 1] \o AddLiteralCandidates(i, bv, tgt)
    IN  byConst[Len(cs)]
        \o mulpow[IF top = 0 THEN 1 ELSE top]
        \o addsub[top]
        \o <<Cand("subexpr", litexpr_t(dimreal(RInt(0), bv.unit)), FALSE)>>

\* A candidate that has b on both sides and leaves its new leaf unused
MakeCandidate_b_twice(h, b, cand) ==
    LET leaf == make_shared(h, cand.leaf)
    IN  make_shared(leaf.h, binexpr_t(cand.type, b, b))

\* A candidate over b and the first node of the heap in place of its new leaf
MakeCandidate_over_first_node(h, b, cand) ==
    LET leaf == make_shared(h, cand.leaf)
    IN  make_shared(leaf.h, binexpr_t(cand.type, b, 1))

\* std::make_shared<...expr_t>(b, std::make_shared<...>(...)) and its mirror
MakeCandidate(h, b, cand) ==
    LET leaf == make_shared(h, cand.leaf)
    IN  make_shared(leaf.h,
                    IF cand.bfirst THEN binexpr_t(cand.type, b, leaf.id)
                    ELSE binexpr_t(cand.type, leaf.id, b))

Pair(err, id) == [first |-> err, second |-> id]

\* The recording without the test of the dimension
record_always(r, al, tgt, a, cursize) ==
    IF IsFatal(r.v)
    THEN [h |-> r.h, all |-> al, exit |-> r.v.err, calls |-> <<>>]
    ELSE [h |-> r.h,
          all |-> Append(al, Pair(cost(r.v.value, tgt.value), a)),
          exit |-> "run",
          calls |-> <<[b |-> a, cursize |-> cursize + 1, k |-> 0]>>]

\* test_expr(a, cursize) after dimreal_t v = a->load(), up to its call of
\* recurse: the heap and the list it leaves, the exit state, and the call
\* recurse(a, cursize + 1) it makes.  r is what the load returned.
record(r, al, tgt, a, cursize) ==
    IF IsFatal(r.v)
    THEN [h |-> r.h, all |-> al, exit |-> r.v.err, calls |-> <<>>]
    ELSE [h |-> r.h,
          all |-> IF same_dimension(r.v.unit, tgt.unit)
                  THEN Append(al, Pair(cost(r.v.value, tgt.value), a))
                  ELSE al,
          exit |-> "run",
          calls |-> <<[b |-> a, cursize |-> cursize + 1, k |-> 0]>>]

\* test_expr that calls recurse(a, cursize + 2)
test_expr_two_levels(h, al, tgt, a, cursize) ==
    record(load(h, a), al, tgt, a, cursize + 1)

test_expr(h, al, tgt, a, cursize) ==
    record(load(h, a), al, tgt, a, cursize)

\* What no step of the search or of the selection writes
InputsUnchanged ==
    UNCHANGED <<handles, hist, arithVars, constants, target, max_expr_size,
                max_int_constants>>

SelectionUnchanged == UNCHANGED <<sel_i, selected, printed>>

Top == stack[Len(stack)]

Pop == SubSeq(stack, 1, Len(stack) - 1)

TopCandidates ==
    Candidates(load(heap, Top.b).v, constants, target, max_int_constants)

\* recurse: if (cursize > max_expr_size) { return; }
RecurseBound ==
    /\ pc = "seeds" /\ exit = "run"
    /\ stack # <<>>
    /\ cursize_exceeds(Top.cursize, max_expr_size)
    /\ stack' = Pop
    /\ UNCHANGED <<heap, exit, all, pc, seed_i>>
    /\ SelectionUnchanged /\ InputsUnchanged

\* recurse: the next test_expr(<candidate>, cursize) of the loops
RecurseCandidate ==
    /\ pc = "seeds" /\ exit = "run"
    /\ stack # <<>>
    /\ ~cursize_exceeds(Top.cursize, max_expr_size)
    /\ Top.k < Len(TopCandidates)
    /\ \E a \in {MakeCandidate(heap, Top.b, TopCandidates[Top.k + 1])} :
         \E r \in {test_expr(a.h, all, target, a.id, Top.cursize)} :
           /\ heap' = r.h
           /\ all' = r.all
           /\ exit' = r.exit
           /\ stack' = [stack EXCEPT ![Len(stack)].k = @ + 1] \o r.calls
    /\ UNCHANGED <<pc, seed_i>>
    /\ SelectionUnchanged /\ InputsUnchanged

\* recurse: the loops are over, the call returns
RecurseReturn ==
    /\ pc = "seeds" /\ exit = "run"
    /\ stack # <<>>
    /\ ~cursize_exceeds(Top.cursize, max_expr_size)
    /\ Top.k = Len(TopCandidates)
    /\ stack' = Pop
    /\ UNCHANGED <<heap, exit, all, pc, seed_i>>
    /\ SelectionUnchanged /\ InputsUnchanged

(***************************************************************************)
(* main: the seeds                                                         *)
(***************************************************************************)
NSeeds == Len(constants) + (IF max_int_constants < 0 THEN 0 ELSE max_int_constants)

Seed(k) ==
    IF k <= Len(constants) THEN Cnst(constants[k])
    ELSE litexpr_t(dimreal(RInt(k - Len(constants)), target.unit))

\* test_expr(std::make_shared<cnstexpr_t>(constant), 1), then
\* test_expr(std::make_shared<litexpr_t>(dimreal_t{i, target->unit}), 1)
TestSeed ==
    /\ pc = "seeds" /\ exit = "run"
    /\ stack = <<>>
    /\ seed_i < NSeeds
    /\ \E a \in {make_shared(heap, Seed(seed_i + 1))} :
         \E r \in {test_expr(a.h, all, target, a.id, 1)} :
           /\ heap' = r.h
           /\ all' = r.all
           /\ exit' = r.exit
           /\ stack' = r.calls
    /\ seed_i' = seed_i + 1
    /\ UNCHANGED pc
    /\ SelectionUnchanged /\ InputsUnchanged

SeedsDone ==
    /\ pc = "seeds" /\ exit = "run"
    /\ stack = <<>>
    /\ seed_i = NSeeds
    /\ pc' = "select"
    /\ UNCHANGED <<heap, exit, all, stack, seed_i>>
    /\ SelectionUnchanged /\ InputsUnchanged

(***************************************************************************)
(* main: the selection loop, the sort and the printing                     *)
(***************************************************************************)
\* A search that stops at the first entry, whatever its error
find_if_first_position(sel, a) == IF sel = <<>> THEN 0 ELSE 1

\* std::find_if(selected.begin(), selected.end(), a.first == b.first): the
\* first position with an equal error, 0 for selected.end()
find_if(sel, a) ==
    LET hits == {p \in DOMAIN sel : REq(a.first, sel[p].first)}
    IN  IF hits = {} THEN 0 ELSE CHOOSE p \in hits : \A q \in hits : p <= q

\* One iteration of the selection loop, keeping the larger expression
select_one_keep_larger(h, sel, a) ==
    LET pos == find_if(sel, a)
    IN  IF pos # 0
        THEN (IF size(h, sel[pos].second) < size(h, a.second)
              THEN [sel EXCEPT ![pos] = a]
              ELSE sel)
        ELSE Append(sel, a)

\* One iteration of the selection loop
select_one(h, sel, a) ==
    LET pos == find_if(sel, a)
    IN  IF pos # 0
        THEN (IF size(h, sel[pos].second) > size(h, a.second)
              THEN [sel EXCEPT ![pos] = a]
              ELSE sel)
        ELSE Append(sel, a)

\* Insertion of x into a list sorted by first: before the first larger entry
RECURSIVE InsertByFirst(_, _)
InsertByFirst(sorted, x) ==
    IF sorted = <<>> THEN <<x>>
    ELSE IF RLt(x.first, Head(sorted).first) THEN <<x>> \o sorted
    ELSE <<Head(sorted)>> \o InsertByFirst(Tail(sorted), x)

\* The selected list left in the order of the selection
sort_unsorted(sel) == sel

\* std::sort(selected.begin(), selected.end(), a.first < b.first).  The errors
\* of the selected entries are pairwise different, which leaves one order.
sort(sel) ==
    LET upto[k \in 0..Len(sel)] ==
            IF k = 0 THEN <<>> ELSE InsertByFirst(upto[k - 1], sel[k])
    IN  upto[Len(sel)]

\* unit_to_str: nothing for a dimensionless unit, else a blank and the unit
unit_to_str(u) ==
    IF dimension(u) = dimensionless_d THEN ""
    ELSE " "
         \o (IF u.l = 0 THEN "" ELSE IF u.l = 1 THEN "m" ELSE "m^" \o ToString(u.l))
         \o (IF u.t = 0 THEN "" ELSE IF u.t = 1 THEN "s" ELSE "s^" \o ToString(u.t))

\* dimreal_t::to_str: the numeral, then the unit
to_str(x) ==
    (IF x.value.d = 1 THEN ToString(x.value.n)
     ELSE ToString(x.value.n) \o "/" \o ToString(x.value.d))
    \o unit_to_str(x.unit)

OpName(ty) ==
    CASE ty = "addexpr" -> "+"
      [] ty = "subexpr" -> "-"
      [] ty = "mulexpr" -> "*"
      [] ty = "divexpr" -> "/"
      [] ty = "powexpr" -> "^"

RECURSIVE disp(_, _)
disp(h, id) ==
    IF h[id].type = "litexpr" THEN to_str(h[id].value)
    ELSE IF h[id].type = "cnstexpr" THEN h[id].name
    ELSE "(" \o disp(h, h[id].exprs[1]) \o " " \o OpName(h[id].type) \o " "
         \o disp(h, h[id].exprs[2]) \o ")"

Min(a, b) == IF a < b THEN a ELSE b

\* The print loop without the bound of 30 lines
print_all(h, sel) ==
    [i \in 1..Len(sel) |->
        [disp |-> disp(h, sel[i].second), err |-> sel[i].first]]

\* The lines of the print loop: i < 30 && i < selected.size()
print(h, sel) ==
    [i \in 1..Min(MaxPrinted, Len(sel)) |->
        [disp |-> disp(h, sel[i].second), err |-> sel[i].first]]

SearchUnchanged == UNCHANGED <<heap, exit, all, stack, seed_i>>

\* for (const std::pair<mpreal, sptrexpr_t> &a : all) { ... }
SelectStep ==
    /\ pc = "select"
    /\ sel_i < Len(all)
    /\ selected' = select_one(heap, selected, all[sel_i + 1])
    /\ sel_i' = sel_i + 1
    /\ UNCHANGED <<pc, printed>>
    /\ SearchUnchanged /\ InputsUnchanged

Sort ==
    /\ pc = "select"
    /\ sel_i = Len(all)
    /\ selected' = sort(selected)
    /\ pc' = "print"
    /\ UNCHANGED <<sel_i, printed>>
    /\ SearchUnchanged /\ InputsUnchanged

PrintLines ==
    /\ pc = "print"
    /\ printed' = print(heap, selected)
    /\ pc' = "done"
    /\ UNCHANGED <<sel_i, selected>>
    /\ SearchUnchanged /\ InputsUnchanged

(***************************************************************************)
(* Specification SpecGen: main from the seeds to the printed lines, for    *)
(* inputs drawn from a set of configurations.                              *)
(***************************************************************************)
Constant(nm, n, d, u) == [value |-> dimreal(RNorm(n, d), u), name |-> nm]

Second == [s |-> RInt(1), l |-> 0, t |-> 1]

\* pi to the precision of the model
Pi == Constant("pi", 355, 113, quantity)

Config(cs, tgt, bound, ints) ==
    [constants |-> cs, target |-> tgt, max_expr_size |-> bound,
     max_int_constants |-> ints]

\* End-to-end example 1: pi, target 6.2832, integer constants up to 2
Example1 == {Config(<<Pi>>, dimreal(RNorm(3927, 625), quantity), n, 2) : n \in {1, 2}}

\* End-to-end example 2: no constants, target 4, integer constants up to 4
Example2 == {Config(<<>>, dimreal(RInt(4), quantity), n, 4) : n \in {1, 2}}

\* End-to-end example 3: a target in metres, no constant of that dimension
Example3 ==
    {Config(cs, dimreal(RInt(5), Meter), n, i) :
        cs \in {<<>>, <<Constant("tau", 2, 1, Second)>>},
        n \in 1..MaxExprSize, i \in 0..MaxInt}
    \cup
    {Config(<<Constant("half", 1, 2, quantity), Constant("tau", 2, 1, Second)>>,
            dimreal(RInt(5), Meter), n, i) :
        n \in {1, 2}, i \in 0..MaxInt}

\* Searches with drawn constants, targets and bounds
Drawn ==
    {Config(cs, tgt, n, i) :
        cs \in {<<>>,
                <<Constant("zero", 0, 1, quantity)>>,
                <<Constant("minus", -1, 1, quantity)>>,
                <<Constant("half", 1, 2, quantity)>>,
                <<Constant("len", 2, 1, Meter)>>},
        tgt \in {dimreal(RInt(1), quantity), dimreal(RInt(2), Meter)},
        n \in 1..MaxExprSize, i \in 0..MaxInt}

\* Searches three levels deep, where the expression under extension can have
\* the value zero or no finite value ((minus - minus), (zero ^ minus))
Deep ==
    {Config(cs, dimreal(RInt(1), quantity), 3, 0) :
        cs \in {<<Constant("minus", -1, 1, quantity)>>,
                <<Constant("zero", 0, 1, quantity), Constant("minus", -1, 1, quantity)>>}}

\* A search whose constant has another dimension than the target, with the
\* literals 1 and 2
Converting ==
    {Config(<<Constant("tau", 2, 1, Second)>>, dimreal(RInt(3), Meter), 2, 2)}

GenConfigs == Example1 \cup Example2 \cup Example3 \cup Drawn \cup Deep \cup Converting

InitGen ==
    /\ \E c \in GenConfigs :
          /\ constants = c.constants
          /\ target = c.target
          /\ max_expr_size = c.max_expr_size
          /\ max_int_constants = c.max_int_constants
    /\ all = <<>>
    /\ stack = <<>>
    /\ pc = "seeds"
    /\ seed_i = 0
    /\ sel_i = 0
    /\ selected = <<>>
    /\ printed = <<>>
    /\ ExprIdle
    /\ ArithIdle

NextGen ==
    \/ TestSeed
    \/ RecurseBound
    \/ RecurseCandidate
    \/ RecurseReturn
    \/ SeedsDone
    \/ SelectStep
    \/ Sort
    \/ PrintLines

SpecGen == InitGen /\ [][NextGen]_vars

(***************************************************************************)
(* Claims about the search (checked under SpecGen)                         *)
(***************************************************************************)
\* The call on top of the stack is recurse(b, cursize) with cursize above the
\* bound
AboveBound == stack # <<>> /\ Top.cursize > max_expr_size

\* C3: a call recurse(b, cursize) with cursize > max_expr_size returns and
\* leaves the expressions, their caches and the list `all` as they were; every
\* pair a step appends to `all`, and every pair of `all` when the run is over,
\* has an expression of size() <= 2 * max_expr_size + 1.
C3_GeneratorSizeBound ==
    /\ [][AboveBound => (stack' = Pop /\ heap' = heap /\ all' = all)]_vars
    /\ [][\A i \in (Len(all) + 1)..Len(all') :
             size(heap', all'[i].second) <= 2 * max_expr_size + 1]_vars
    /\ [](pc = "done" =>
             \A i \in DOMAIN all :
                 size(heap, all[i].second) <= 2 * max_expr_size + 1)

\* A call above the bound is on top of the stack, for the largest bound, after
\* an expression of the largest size the bound admits was recorded
C3_Witness ==
    /\ AboveBound
    /\ max_expr_size = MaxExprSize
    /\ all # <<>>
    /\ size(heap, all[Len(all)].second) = 2 * max_expr_size - 1
    /\ Top.b = all[Len(all)].second

InExample1 ==
    /\ constants = <<Pi>>
    /\ target = dimreal(RNorm(3927, 625), quantity)
    /\ max_int_constants = 2

Displayed(lst) == {disp(heap, lst[i].second) : i \in DOMAIN lst}

NearZero(e) == RLt(e, RNorm(1, 1000))

\* C6 (as claimed): in example 1 with max_expr_size = 1 the first printed line
\* is (pi * 2), with an error near zero.
C6_FirstRankedIsPiTimesTwo ==
    (pc = "done" /\ InExample1 /\ max_expr_size = 1) =>
        /\ printed # <<>>
        /\ printed[1].disp = "(pi * 2)"
        /\ NearZero(printed[1].err)

\* C6 (amended): in example 1 with max_expr_size = 1 the printed lines are the
\* three leaves, pi first, with an error above 3; with max_expr_size = 2 the
\* first printed line is (pi + pi) with an error near zero, and (pi * 2), of
\* the same error and size, was recorded later and is not printed.
C6_Example1 ==
    (pc = "done" /\ InExample1) =>
        /\ max_expr_size = 1 =>
              /\ [i \in DOMAIN printed |-> printed[i].disp] = <<"pi", "2", "1">>
              /\ RGt(printed[1].err, RInt(3))
        /\ max_expr_size = 2 =>
              /\ printed[1].disp = "(pi + pi)"
              /\ NearZero(printed[1].err)
              /\ \E i, j \in DOMAIN all :
                    /\ i < j
                    /\ disp(heap, all[i].second) = "(pi + pi)"
                    /\ disp(heap, all[j].second) = "(pi * 2)"
                    /\ all[j].first = all[i].first
              /\ \A i \in DOMAIN printed : printed[i].disp # "(pi * 2)"

\* Example 1 with max_expr_size = 1 has printed its lines
C6_Witness ==
    /\ pc = "done" /\ InExample1 /\ max_expr_size = 1
    /\ Len(all) = 3
    /\ printed[1].disp = "pi"

InExample2 ==
    /\ constants = <<>>
    /\ target = dimreal(RInt(4), quantity)
    /\ max_int_constants = 4

\* C7 (as claimed): in example 2 with max_expr_size = 1 a printed line is
\* (2 ^ 2) with the error zero, before every line with another error.
C7_TwoSquaredIsRanked ==
    (pc = "done" /\ InExample2 /\ max_expr_size = 1) =>
        \E i \in DOMAIN printed :
            /\ printed[i].disp = "(2 ^ 2)"
            /\ printed[i].err = RInt(0)
            /\ \A j \in DOMAIN printed : printed[j].err # RInt(0) => i < j

\* C7 (amended): in example 2 the first printed line is the literal 4 with the
\* error zero and every other line has a positive error; (2 ^ 2) is recorded
\* in `all`, with the error zero, only for max_expr_size >= 2, and is never
\* printed: the selection keeps the smaller literal 4.
C7_Example2 ==
    (pc = "done" /\ InExample2) =>
        /\ printed # <<>>
        /\ printed[1].disp = "4"
        /\ printed[1].err = RInt(0)
        /\ \A j \in 2..Len(printed) : RGt(printed[j].err, RInt(0))
        /\ \A j \in DOMAIN printed : printed[j].disp # "(2 ^ 2)"
        /\ ("(2 ^ 2)" \in Displayed(all)) <=> (max_expr_size >= 2)
        /\ \A i \in DOMAIN all :
              disp(heap, all[i].second) = "(2 ^ 2)" => all[i].first = RInt(0)

\* Example 2 has printed its lines for max_expr_size = 1: the four literals
C7_Witness ==
    /\ pc = "done" /\ InExample2 /\ max_expr_size = 1
    /\ Len(printed) = 4
    /\ printed[1].disp = "4"

InExample3 == target = dimreal(RInt(5), Meter)

\* C8 (as claimed): in example 3 nothing is printed, for every
\* max_int_constants >= 0.
C8_NothingIsPrinted ==
    (pc = "done" /\ InExample3) => printed = <<>>

\* C8 (amended): in example 3 nothing is recorded and nothing is printed when
\* max_int_constants = 0; for max_int_constants >= 1 the literal seeds carry
\* the unit of the target, and the literal 1 m is printed.
C8_Example3 ==
    (pc = "done" /\ InExample3) =>
        /\ max_int_constants = 0 => (all = <<>> /\ printed = <<>>)
        /\ max_int_constants >= 1 =>
              \E i \in DOMAIN printed :
                  /\ printed[i].disp = to_str(dimreal(RInt(1), Meter))
                  /\ heap[selected[i].second].type = "litexpr"

\* Example 3 is over without a result, after candidates over constants of
\* other dimensions were built and evaluated
C8_Witness ==
    /\ pc = "done" /\ InExample3
    /\ max_int_constants = 0
    /\ Len(constants) = 2
    /\ max_expr_size >= 2
    /\ Len(heap) > 2
    /\ printed = <<>>

\* The operator nodes that have node n as a child
ParentsOf(n) ==
    {p \in DOMAIN heap : \E i \in DOMAIN heap[p].exprs : heap[p].exprs[i] = n}

\* C18 (as claimed): in the heap the search builds every node is the child of
\* at most one operator node: no two candidates share a node.
C18_AtMostOneParent ==
    \A n \in DOMAIN heap : Cardinality(ParentsOf(n)) <= 1

\* C18 (amended): a step of the search changes the children of no node that
\* exists; a seed is one new leaf; a candidate of recurse(b, cursize) is one
\* new operator node over one new leaf, which no other node has as a child,
\* and over b, the expression under extension, which every candidate of that
\* call has as a child.
C18_FreshLeafSharedSeed ==
    [][Len(heap') > Len(heap) =>
          LET n == Len(heap)
          IN  /\ \A k \in 1..n : heap'[k].exprs = heap[k].exprs
              /\ heap'[n + 1].exprs = <<>>
              /\ stack = <<>> => Len(heap') = n + 1
              /\ stack # <<>> =>
                     /\ Len(heap') = n + 2
                     /\ Top.b <= n
                     /\ heap'[n + 2].exprs \in {<<Top.b, n + 1>>, <<n + 1, Top.b>>}]_vars

\* Two candidates were built from one seed: the seed is the child of both,
\* and each has a leaf of its own
C18_Witness ==
    \E n \in DOMAIN heap :
        /\ Cardinality(ParentsOf(n)) >= 2
        /\ \A p \in ParentsOf(n) :
               \E m \in DOMAIN heap : m # n /\ ParentsOf(m) = {p}

C20_NoEvaluationError ==
    /\ [](exit = "run")
    /\ [][\A k \in (Len(heap) + 1)..Len(heap') :
             heap'[k].type = "divexpr" =>
                 /\ ~heap'[heap'[k].exprs[2]].dirty
                 /\ ~REq(heap'[heap'[k].exprs[2]].cache.value, RInt(0))]_vars

\* In the search with the constants zero and minus candidates were built
\* from the seed 0, a power among them, and from an expression without a
\* finite value, and there is a division with the value 0 on the left
C20_Witness ==
    /\ exit = "run"
    /\ Len(constants) = 2 /\ REq(constants[1].value.value, RInt(0))
    /\ \E p \in DOMAIN heap : heap[p].type = "powexpr" /\ heap[p].exprs[2] = 1
    /\ \E p \in DOMAIN heap :
           /\ heap[p].exprs # <<>>
           /\ heap[heap[p].exprs[1]].exprs # <<>>
           /\ ~RIsFinite(heap[heap[p].exprs[1]].cache.value)
    /\ \E p \in DOMAIN heap :
           /\ heap[p].type = "divexpr"
           /\ REq(heap[heap[p].exprs[1]].cache.value, RInt(0))

\* The call on top of the stack returns after the last of its candidates
RecurseReturns ==
    /\ stack # <<>>
    /\ ~cursize_exceeds(Top.cursize, max_expr_size)
    /\ stack' = Pop

\* A node of the heap is the operator ty over b and a leaf for the constant c,
\* with b on the left (bfirst) or on the right
BuiltWithConstant(ty, b, c, bfirst) ==
    \E p \in DOMAIN heap :
        /\ heap[p].type = ty
        /\ heap[p].exprs[IF bfirst THEN 1 ELSE 2] = b
        /\ heap[heap[p].exprs[IF bfirst THEN 2 ELSE 1]].type = "cnstexpr"
        /\ heap[heap[p].exprs[IF bfirst THEN 2 ELSE 1]].name = c.name
        /\ heap[p].exprs[1] # heap[p].exprs[2]

\* C21 (as claimed): when recurse(b, cursize) returns it has built pow(b, c),
\* and pow(c, b), for a constant c exactly if dimreal_t::pow succeeds on the
\* values of the two operands.
C21_PowCandidatesMirrorLegality ==
    [][RecurseReturns =>
          \A k \in DOMAIN constants :
              /\ BuiltWithConstant("powexpr", Top.b, constants[k], TRUE)
                    <=> ~IsFatal(pow(heap[Top.b].cache, constants[k].value))
              /\ BuiltWithConstant("powexpr", Top.b, constants[k], FALSE)
                    <=> ~IsFatal(pow(constants[k].value, heap[Top.b].cache))]_vars

\* A node of the heap is the operator ty over b and a literal leaf of the
\* magnitude i, on either side
BuiltWithLiteral(ty, b, i) ==
    \E p \in DOMAIN heap :
        /\ heap[p].type = ty
        /\ \E s \in {1, 2} :
              /\ heap[p].exprs[s] = b
              /\ heap[p].exprs[3 - s] # b
              /\ heap[heap[p].exprs[3 - s]].type = "litexpr"
              /\ heap[heap[p].exprs[3 - s]].value.value = RInt(i)

\* pow succeeds on b and the literal i without dimension, one way or the other
PowWithLiteralLegal(bv, i) ==
    \/ ~IsFatal(pow(bv, dimreal(RInt(i), quantity)))
    \/ ~IsFatal(pow(dimreal(RInt(i), quantity), bv))

\* C22 (as claimed): when recurse(b, cursize) returns it has built, for every
\* integer i from 1 to max_int_constants, a sum, a difference, a product and
\* a quotient of b and the literal i, and a power of the two where pow
\* succeeds.
C22_LiteralCoverage ==
    [][RecurseReturns =>
          \A i \in 1..max_int_constants :
              /\ \A ty \in {"addexpr", "subexpr", "mulexpr", "divexpr"} :
                     BuiltWithLiteral(ty, Top.b, i)
              /\ PowWithLiteralLegal(heap[Top.b].cache, i)
                     => BuiltWithLiteral("powexpr", Top.b, i)]_vars

\* The step builds the candidate b * literal, b / literal or literal / b
BuildsLiteralProductOrQuotient ==
    /\ stack # <<>>
    /\ Len(heap') = Len(heap) + 2
    /\ heap'[Len(heap')].type \in {"mulexpr", "divexpr"}
    /\ heap'[Len(heap) + 1].type = "litexpr"

\* C23: the candidates b * literal, b / literal and literal / b, whose
\* literals have the units target / b, b / target and b * target, have a value
\* of the dimension of the target whatever the dimension of b, and each one
\* that is built is recorded in `all` with its distance to the target.
C23_LiteralUnitsLandOnTarget ==
    [][BuildsLiteralProductOrQuotient =>
          LET a == Len(heap')
              lit == heap'[Len(heap) + 1].value.unit
              bu == heap[Top.b].cache.unit
          IN  /\ exit' = "run"
              /\ lit = CASE heap'[a].type = "mulexpr" -> unit_div(target.unit, bu)
                         [] heap'[a].exprs[1] = Top.b -> unit_div(bu, target.unit)
                         [] OTHER -> unit_mul(bu, target.unit)
              /\ ~heap'[a].dirty
              /\ dimension(heap'[a].cache.unit) = dimension(target.unit)
              /\ all' = Append(all, Pair(cost(heap'[a].cache.value, target.value), a))]_vars

\* A product and two quotients of a seed measured in seconds and a literal are
\* the last three entries recorded, for a target in metres
C23_Witness ==
    /\ Len(all) >= 3
    /\ dimension(target.unit) = <<1, 0>>
    /\ \E b \in DOMAIN heap :
          /\ dimension(heap[b].cache.unit) = <<0, 1>>
          /\ \A j \in 0..2 : b \in {heap[all[Len(all) - j].second].exprs[s] : s \in {1, 2}}
          /\ heap[all[Len(all)].second].type = "divexpr"
          /\ heap[all[Len(all) - 1].second].type = "divexpr"
          /\ heap[all[Len(all) - 2].second].type = "mulexpr"

\* The step is a call test_expr(a, cursize) that returned to its call of
\* recurse: a seed by main (cursize 1) or a candidate by recurse
TestsExpression ==
    /\ Len(heap') > Len(heap)
    /\ exit' = "run"

\* C24 (as claimed): test_expr(a, cursize) appends the one entry
\* (|value(a) - target|, a) to `all` if the value of a has the dimension of the
\* target and nothing otherwise, and then calls recurse(a, cursize + 1); the
\* entry has the dimension of the target and an error that is not negative,
\* and it comes after the entries of the expressions a extends.
C24_RecordingStep ==
    [][TestsExpression =>
          LET a == Len(heap')
              v == heap'[a].cache
              cursize == IF stack = <<>> THEN 1 ELSE Top.cursize
          IN  /\ IF dimension(v.unit) = dimension(target.unit)
                 THEN /\ all' = Append(all, Pair(RAbs(RSub(v.value, target.value)), a))
                      /\ RLe(RInt(0), all'[Len(all')].first)
                 ELSE all' = all
              /\ stack'[Len(stack')] = [b |-> a, cursize |-> cursize + 1, k |-> 0]
              /\ Len(stack') = Len(stack) + 1
              /\ \A f \in DOMAIN stack :
                    dimension(heap[stack[f].b].cache.unit) = dimension(target.unit)
                       => \E i \in DOMAIN all : all[i].second = stack[f].b]_vars

\* C26: the expression of a call test_expr(a, k) has size() 2k - 1; the sizes
\* of the recorded expressions are odd and at most 2 * max_expr_size - 1, a
\* size that a recorded expression has when the search is over and recorded
\* something; and with max_expr_size = 1 the expressions tested, and so the
\* ones recorded, are leaves: named constants and integer literals.
C26_ExactSizePerDepth ==
    /\ [][TestsExpression =>
             LET a == Len(heap')
                 k == IF stack = <<>> THEN 1 ELSE Top.cursize
             IN  /\ size(heap', a) = 2 * k - 1
                 /\ \A i \in (Len(all) + 1)..Len(all') :
                        /\ all'[i].second = a
                        /\ size(heap', a) % 2 = 1
                        /\ size(heap', a) <= 2 * max_expr_size - 1
                 /\ max_expr_size = 1 => heap'[a].type \in {"cnstexpr", "litexpr"}]_vars
    /\ []((pc = "done" /\ all # <<>>) =>
             \E i \in DOMAIN all : size(heap, all[i].second) = 2 * max_expr_size - 1)

\* A search to depth three that has recorded a leaf first and an expression of
\* five nodes last, whose extensions it is about to refuse
C26_Witness ==
    /\ max_expr_size = 3
    /\ all # <<>>
    /\ size(heap, all[1].second) = 1
    /\ size(heap, all[Len(all)].second) = 5
    /\ stack # <<>>
    /\ Top.cursize = 4
    /\ Top.b = all[Len(all)].second

\* The candidates over b in the heap: the operator nodes with the child b
CandidatesOver(b) ==
    {p \in DOMAIN heap : heap[p].exprs # <<>>
                            /\ (heap[p].exprs[1] = b \/ heap[p].exprs[2] = b)}

\* Two nodes are one candidate over b: the operator kind, the side of b, and
\* the constant or literal on the other side are the same
SameCandidate(p, q, b) ==
    /\ heap[p].type = heap[q].type
    /\ \E side \in {1, 2} :
          /\ heap[p].exprs[side] = b
          /\ heap[q].exprs[side] = b
          /\ \E x \in {heap[heap[p].exprs[3 - side]]} :
               \E y \in {heap[heap[q].exprs[3 - side]]} :
                 x.type = y.type /\ x.name = y.name /\ x.value = y.value

\* C28 (as claimed): one call of recurse on b passes each candidate over b to
\* test_expr at most once: when the call returns, no two of the nodes it
\* built over b are the same candidate.
C28_NoDuplicateCandidates ==
    [][RecurseReturns =>
          \E built \in {CandidatesOver(Top.b)} :
              \A p, q \in built : SameCandidate(p, q, Top.b) => p = q]_vars

(***************************************************************************)
(* Specification SpecFrame: a caller runs the search of main and then      *)
(* calls simplify() once, on the handle that one entry of `all` holds.     *)
(***************************************************************************)
\* A search three levels deep over the constant 1
FrameConfigs ==
    {Config(<<Constant("one", 1, 1, quantity)>>, dimreal(RInt(1), quantity), 3, 0)}

InitFrame ==
    /\ \E c \in FrameConfigs :
          /\ constants = c.constants
          /\ target = c.target
          /\ max_expr_size = c.max_expr_size
          /\ max_int_constants = c.max_int_constants
    /\ all = <<>>
    /\ stack = <<>>
    /\ pc = "seeds"
    /\ seed_i = 0
    /\ sel_i = 0
    /\ selected = <<>>
    /\ printed = <<>>
    /\ ExprIdle
    /\ ArithIdle

\* simplify(all[i].second);
SimplifyEntry ==
    /\ pc = "done" /\ exit = "run"
    /\ hist = <<>>
    /\ \E i \in DOMAIN all :
         \E S \in {simplify(Store(heap, <<all[i].second>>, exit), <<0, 1>>)} :
           /\ heap' = S.heap
           /\ all' = [all EXCEPT ![i].second = S.handles[1]]
           /\ exit' = S.exit
           /\ hist' = <<[op |-> "simplify", i |-> i]>>
    /\ UNCHANGED <<handles, arithVars, constants, target, max_expr_size,
                   max_int_constants, stack, pc, seed_i, sel_i, selected, printed>>

NextFrame ==
    \/ TestSeed
    \/ RecurseBound
    \/ RecurseCandidate
    \/ RecurseReturn
    \/ SeedsDone
    \/ SelectStep
    \/ Sort
    \/ PrintLines
    \/ SimplifyEntry

SpecFrame == InitFrame /\ [][NextFrame]_vars

\* The expression of a handle is the one it was before the step: no node
\* below it has a null child, and its display string and its value are the
\* same
SameExpression(id) ==
    /\ \A n \in Descendants(heap', id) :
          \A c \in DOMAIN heap'[n].exprs : heap'[n].exprs[c] # 0
    /\ disp(heap', id) = disp(heap, id)
    /\ load(heap', id).v = load(heap, id).v

\* C27 (as claimed): simplify on the handle of one entry of `all` leaves the
\* expressions of the other entries of `all` and of `selected` as they were:
\* the same display string, the same value, and no null child below them.
C27_SimplifyFrame ==
    [][(hist = <<>> /\ hist' # <<>>) =>
          /\ \A j \in DOMAIN all \ {hist'[1].i} :
                all'[j].second = all[j].second /\ SameExpression(all[j].second)
          /\ \A j \in DOMAIN selected :
                selected[j].second # all[hist'[1].i].second
                    => SameExpression(selected[j].second)]_vars

(***************************************************************************)
(* Specification SpecBad: main on inputs whose bounds are not the positive *)
(* max_expr_size and the non-negative max_int_constants the prompt asks    *)
(* for.  std::stoi accepts them.  With a negative max_expr_size the test   *)
(* of recurse compares the unsigned cursize with max_expr_size converted   *)
(* to unsigned and never returns: the calls are followed to the depth      *)
(* MaxExprSize + 1.                                                        *)
(***************************************************************************)
InitBad ==
    /\ \E cs \in {<<>>, <<Constant("half", 1, 2, quantity)>>,
                   <<Constant("half", 1, 2, quantity), Constant("tau", 2, 1, Second)>>} :
       \E tgt \in {dimreal(RInt(1), quantity), dimreal(RInt(2), Second)} :
       \E n \in -1..MaxExprSize :
       \E i \in -1..MaxInt :
          /\ n <= 0 \/ i < 0
          /\ constants = cs
          /\ target = tgt
          /\ max_expr_size = n
          /\ max_int_constants = i
    /\ all = <<>>
    /\ stack = <<>>
    /\ pc = "seeds"
    /\ seed_i = 0
    /\ sel_i = 0
    /\ selected = <<>>
    /\ printed = <<>>
    /\ ExprIdle
    /\ ArithIdle

NextBad ==
    \/ TestSeed
    \/ RecurseBound
    \/ (Len(stack) <= MaxExprSize + 1 /\ RecurseCandidate)
    \/ RecurseReturn
    \/ SeedsDone
    \/ SelectStep
    \/ Sort
    \/ PrintLines

SpecBad == InitBad /\ [][NextBad]_vars

(***************************************************************************)
(* Claims about the bounds read by main (checked under SpecBad)            *)
(***************************************************************************)
\* C17 (as claimed): with max_expr_size <= 0 or max_int_constants < 0 the run
\* is aborted before a seed is evaluated: no node is built, nothing is
\* recorded, and recurse is not called.
C17_InvalidBoundsAbort ==
    (max_expr_size <= 0 \/ max_int_constants < 0) =>
        /\ heap = <<>>
        /\ all = <<>>
        /\ stack = <<>>
        /\ pc = "seeds"
        /\ seed_i = 0

(***************************************************************************)
(* Specification SpecSel: the selection loop, the sort and the print loop  *)
(* of main on lists `all` drawn over a heap of evaluated expressions: the  *)
(* literals 1..NLit, then (1 + 1), ((1 + 1) + 1) and (1 * 3).  The target  *)
(* is 2, and every entry pairs an expression with its cost.                *)
(***************************************************************************)
NLit == MaxPrinted + MaxAll + 1

SelTarget == dimreal(RInt(2), quantity)

SelNodes ==
    [i \in 1..NLit |-> litexpr_t(dimreal(RInt(i), quantity))]
    \o <<binexpr_t("addexpr", 1, 1),
         binexpr_t("addexpr", NLit + 1, 1),
         binexpr_t("mulexpr", 1, 3)>>

\* The heap after every expression was evaluated by test_expr
SelHeap ==
    LET loaded[k \in 0..Len(SelNodes)] ==
            IF k = 0 THEN SelNodes ELSE load(loaded[k - 1], k).h
    IN  loaded[Len(SelNodes)]

\* all.emplace_back(diff, a)
Entry(id) == Pair(cost(SelHeap[id].cache.value, SelTarget.value), id)

\* Short lists: every list of up to MaxAll entries over six expressions, of
\* the errors 0, 1, 1, 0, 1, 1 and the sizes 1, 1, 1, 3, 5, 3
ShortPool == {2, 1, 3, NLit + 1, NLit + 2, NLit + 3}

ShortLists ==
    UNION {[1..n -> {Entry(id) : id \in ShortPool}] : n \in 0..MaxAll}

\* Long lists: the literals 2..(n + 1), of n different errors, in the order
\* i -> (i * k) % n, after a short prefix
Scrambled(n, k) == [i \in 1..n |-> Entry(((i * k) % n) + 2)]

LongLists ==
    {<<Entry(NLit + 2), Entry(3)>> \o Scrambled(n, k) :
        n \in (MaxPrinted - 1)..(MaxPrinted + MaxAll - 1), k \in {1, 7, 11}}

InitSel ==
    /\ heap = SelHeap
    /\ handles = <<>> /\ exit = "run" /\ hist = <<>>
    /\ ArithIdle
    /\ constants = <<>>
    /\ target = SelTarget
    /\ max_expr_size = 3
    /\ max_int_constants = NLit
    /\ all \in ShortLists \cup LongLists
    /\ stack = <<>>
    /\ pc = "select"
    /\ seed_i = NLit
    /\ sel_i = 0
    /\ selected = <<>>
    /\ printed = <<>>

NextSel ==
    \/ SelectStep
    \/ Sort
    \/ PrintLines

SpecSel == InitSel /\ [][NextSel]_vars

(***************************************************************************)
(* Claims about the selection (checked under SpecSel)                      *)
(***************************************************************************)
Errors(lst) == {lst[i].first : i \in DOMAIN lst}

\* The selection loop is over
Selected == pc \in {"print", "done"} \/ (pc = "select" /\ sel_i = Len(all))

\* C4: after the selection loop, for every error of `all` exactly one entry of
\* selected has that error, it is an entry of `all`, and its expression has
\* the smallest size() of the entries of `all` with that error; entries of
\* different errors all survive.
C4_SelectorDedup ==
    Selected =>
        /\ Errors(selected) = Errors(all)
        /\ \A p, q \in DOMAIN selected :
              selected[p].first = selected[q].first => p = q
        /\ \A p \in DOMAIN selected :
              /\ \E i \in DOMAIN all : all[i] = selected[p]
              /\ \A i \in DOMAIN all :
                    all[i].first = selected[p].first =>
                        size(heap, selected[p].second) <= size(heap, all[i].second)

\* The loop is over for a list where a smaller expression followed a larger
\* one of the same error, and another error occurs
C4_Witness ==
    /\ pc = "select" /\ sel_i = Len(all)
    /\ Len(selected) >= 2
    /\ \E i, j \in DOMAIN all :
          /\ i < j
          /\ all[i].first = all[j].first
          /\ size(heap, all[j].second) < size(heap, all[i].second)

\* The number of errors of `all` below e
Rank(e) == Cardinality({f \in Errors(all) : RLt(f, e)})

\* C5: the printed lines are the first min(30, number of different errors)
\* entries of the selected list in strictly ascending order of error: line i
\* has the i-th smallest error of `all`, and displays an expression recorded
\* with that error.
C5_SelectorRanking ==
    pc = "done" =>
        /\ Len(printed) = Min(30, Cardinality(Errors(all)))
        /\ \A i \in 1..(Len(printed) - 1) : RLt(printed[i].err, printed[i + 1].err)
        /\ \A i \in DOMAIN printed :
              /\ printed[i].err \in Errors(all)
              /\ Rank(printed[i].err) = i - 1
              /\ \E j \in DOMAIN all :
                    /\ all[j].first = printed[i].err
                    /\ disp(heap, all[j].second) = printed[i].disp

\* The lines are printed for a list of more than 30 different errors that was
\* not in ascending order
C5_Witness ==
    /\ pc = "done"
    /\ Cardinality(Errors(all)) > MaxPrinted
    /\ Len(printed) = MaxPrinted
    /\ \E i \in 1..(Len(all) - 1) : RLt(all[i + 1].first, all[i].first)

====
